---------------------------- MODULE Spec2Model ----------------------------
(***************************************************************************)
(* Model of the srsRAN-matlab MEX bindings: the string-tag conversions of  *)
(* matlab_to_srs.h, the "step" method of the PRACH detector MEX, the       *)
(* "step" method of the multiport channel estimator MEX and the            *)
(* construction of the PUSCH demodulator MEX object.                       *)
(*                                                                         *)
(* A call of a step method is a short run of the state machine: the call   *)
(* action runs the argument checks and the configuration up to the first   *)
(* loop, each loop iteration is one step, and the call ends in pc = "done" *)
(* with either an error, a "skipped" notice or the outputs.  The srsRAN    *)
(* library objects behind the bindings (PRACH detector, port channel       *)
(* estimator) are not part of the bindings: what they return is chosen     *)
(* nondeterministically from small sets.                                   *)
(*                                                                         *)
(* Array dimensions are taken below 2^32, so that the narrowing of the     *)
(* MATLAB size_t dimensions to unsigned preserves their value.             *)
(***************************************************************************)
EXTENDS Integers, Sequences, FiniteSets, TLC

VARIABLES
    build,            \* what the build does where the sources leave it open
    pc,               \* position of the running call: "idle", a loop, or "done"
    error,            \* "none", or the error that ended the call
    skipped,          \* TRUE when the call printed the "Skipping test case" notice
    outputs,          \* the output argument list, <<>> while nothing is assigned
    conv,             \* the last string-tag conversion: concept, tag and result
    p_in,             \* PRACH: the arguments of the running call
    detector_config,  \* PRACH: prach_detector::configuration
    buffer,           \* PRACH: the prach_buffer created by the call
    i_symbol,         \* PRACH: loop index of the buffer fill
    fill,             \* PRACH: what the fill loop wrote so far
    detect_calls,     \* PRACH: number of detector->detect() invocations in the call
    result,           \* PRACH: the prach_detection_result of the call
    e_in,             \* estimator: the arguments of the running call
    cfg,              \* estimator: port_channel_estimator::configuration
    grid,             \* estimator: the resource grid and the puts made to it
    grid_view,        \* estimator: the part of the input grid not yet copied
    remaining_res,    \* estimator: number of input elements not yet copied
    idx,              \* estimator: loop indices i_port and i_symbol
    ch_estimate,      \* estimator: the channel_estimate the estimator writes
    ch_est_out,       \* estimator: the estimate slices copied to the output
    compute_calls,    \* estimator: the estimator->compute() calls of the call
    heap,             \* process memory outside the objects of the running call
    mex,              \* PUSCH: how far the construction of the MexFunction object is
    demodulator,      \* PUSCH: the member std::unique_ptr<pusch_demodulator>
    callbacks,        \* PUSCH: the method names registered with create_callback
    nof_assemblies,   \* PUSCH: number of create_pusch_demodulator() invocations
    step_call         \* PUSCH: the running step call and the demodulator it uses

vars == <<build, pc, error, skipped, outputs, conv, p_in, detector_config, buffer,
          i_symbol, fill, detect_calls, result, e_in, cfg, grid, grid_view,
          remaining_res, idx, ch_estimate, ch_est_out, compute_calls, heap, mex,
          demodulator, callbacks, nof_assemblies, step_call>>

---------------------------------------------------------------------------
(* Bounds of the model. *)

\* Largest buffer dimension tried besides the two sequence lengths.
MaxOtherDim == 2
\* Largest root_sequence_index and zero_correlation_zone tried.
MaxCfgValue == 1
\* Longest preamble list the detector returns.
MaxPreambles == 2
\* Largest preamble index and rssi_dB the detector returns.
MaxFieldValue == 1
\* Largest number of subcarriers and of OFDM symbols of a resource grid.
MaxGridDim == 2
\* Largest number of antenna ports of a three-dimensional resource grid.
MaxPorts == 2
\* Length of the DM-RS masks (symbols, resource blocks, resource elements).
MaskLen == 2
\* Largest number of pilot symbols supplied.
MaxPilots == 4
\* Largest index of the results the estimator returns for a port.
MaxResultId == 1

---------------------------------------------------------------------------
(* srsRAN constants used by the bindings. *)

LONG_SEQUENCE_LENGTH == 839
SHORT_SEQUENCE_LENGTH == 139
NOF_PREAMBLE_INDICES == 64

---------------------------------------------------------------------------
(* matlab_to_srs.h: string tags to enumerations.  A conversion either      *)
(* returns an enumeration value or ends in srsran_terminate, which reports *)
(* the unknown tag and returns nothing.                                    *)

Converted(v) == [terminated |-> FALSE, value |-> v]
Terminated == [terminated |-> TRUE, value |-> "none"]

matlab_to_srs_modulation(modulation_name) ==
    IF modulation_name = "BPSK" \/ modulation_name = "pi/2-BPSK" THEN Converted("BPSK")
    ELSE IF modulation_name = "QPSK" THEN Converted("QPSK")
    ELSE IF modulation_name = "QAM16" \/ modulation_name = "16QAM" THEN Converted("QAM16")
    ELSE IF modulation_name = "QAM64" \/ modulation_name = "64QAM" THEN Converted("QAM64")
    ELSE IF modulation_name = "QAM256" \/ modulation_name = "256QAM" THEN Converted("QAM256")
    ELSE Terminated

matlab_to_srs_base_graph(bg) ==
    IF bg = 1 THEN Converted("BG1")
    ELSE IF bg = 2 THEN Converted("BG2")
    ELSE Terminated

\* A conversion that falls back to a default instead of terminating.
matlab_to_srs_restricted_set_Default(restricted_set) ==
    IF restricted_set = "RestrictedSetTypeA" THEN Converted("TYPE_A")
    ELSE IF restricted_set = "RestrictedSetTypeB" THEN Converted("TYPE_B")
    ELSE Converted("UNRESTRICTED")

matlab_to_srs_restricted_set(restricted_set) ==
    IF restricted_set = "UnrestrictedSet" THEN Converted("UNRESTRICTED")
    ELSE IF restricted_set = "RestrictedSetTypeA" THEN Converted("TYPE_A")
    ELSE IF restricted_set = "RestrictedSetTypeB" THEN Converted("TYPE_B")
    ELSE Terminated

matlab_to_srs_preamble_format(preamble_format) ==
    IF preamble_format = "0" THEN Converted("FORMAT0")
    ELSE IF preamble_format = "1" THEN Converted("FORMAT1")
    ELSE IF preamble_format = "2" THEN Converted("FORMAT2")
    ELSE IF preamble_format = "3" THEN Converted("FORMAT3")
    ELSE Converted("OTHER")

\* The tags each conversion accepts by name.
ModulationTags == {"BPSK", "pi/2-BPSK", "QPSK", "QAM16", "16QAM", "QAM64", "64QAM",
                   "QAM256", "256QAM"}
RestrictedSetTags == {"UnrestrictedSet", "RestrictedSetTypeA", "RestrictedSetTypeB"}
PreambleFormatTags == {"0", "1", "2", "3"}

\* Tags no conversion accepts: empty, wrong case, other concepts' spellings.
OtherTags == {"", "qpsk", "4", "A1", "B4", "RestrictedSetTypeC", "1024QAM"}
Tags == ModulationTags \cup RestrictedSetTags \cup PreambleFormatTags \cup OtherTags

Concepts == {"modulation", "restricted_set", "preamble_format"}

AcceptedTags(concept) ==
    CASE concept = "modulation" -> ModulationTags
      [] concept = "restricted_set" -> RestrictedSetTags
      [] concept = "preamble_format" -> PreambleFormatTags

Convert(concept, tag) ==
    CASE concept = "modulation" -> matlab_to_srs_modulation(tag)
      [] concept = "restricted_set" -> matlab_to_srs_restricted_set(tag)
      [] concept = "preamble_format" -> matlab_to_srs_preamble_format(tag)

NoConv == [concept |-> "none", tag |-> "", res |-> Terminated]
Conv(concept, tag) == [concept |-> concept, tag |-> tag, res |-> Convert(concept, tag)]

---------------------------------------------------------------------------
(* PRACH detector MEX: inputs of a step call. *)

\* check_step_outputs_inputs: "ok", or the message of the mex_abort it ends in.
PrachCheckStepOutputsInputs(args) ==
    IF args.nof_inputs # 3 THEN "Wrong number of inputs."
    ELSE IF args.buffer_type # "COMPLEX_DOUBLE"
         THEN "Input 'prach_symbols' must be an array of double."
    ELSE IF ~args.config_is_scalar_struct
         THEN "Input 'config' must be a scalar structure."
    ELSE IF args.nof_outputs # 1 THEN "Wrong number of outputs."
    ELSE "ok"

\* The shape of the argument list, as check_step_outputs_inputs sees it.
PrachArgShapes ==
    LET good == [nof_inputs |-> 3, buffer_type |-> "COMPLEX_DOUBLE",
                 config_is_scalar_struct |-> TRUE, nof_outputs |-> 1]
    IN  {good,
         [good EXCEPT !.nof_inputs = 2],
         [good EXCEPT !.buffer_type = "DOUBLE"],
         [good EXCEPT !.config_is_scalar_struct = FALSE],
         [good EXCEPT !.nof_outputs = 2]}

PrachSampleCounts == (1..MaxOtherDim) \cup {SHORT_SEQUENCE_LENGTH, LONG_SEQUENCE_LENGTH}
PrachSymbolCounts == (0..MaxOtherDim) \cup {SHORT_SEQUENCE_LENGTH}

\* getDimensions() of the buffer: two dimensions, or three.
PrachDimensions ==
    {<<ns, nsym>> : ns \in PrachSampleCounts, nsym \in PrachSymbolCounts}
    \cup {<<ns, nsym, 2>> : ns \in {1, LONG_SEQUENCE_LENGTH}, nsym \in {1}}

PrachRestrictedSetTags == RestrictedSetTags \cup {"RestrictedSetTypeC"}
PrachFormatTags == {"0", "A1"}

\* Every combination of configuration and buffer with a well-formed argument
\* list, and the malformed argument lists with every restricted set.
PrachInputs ==
    {[args |-> a, dims |-> d, restricted_set |-> r, format |-> f,
      root_sequence_index |-> k, zero_correlation_zone |-> MaxCfgValue - k] :
        a \in {x \in PrachArgShapes : PrachCheckStepOutputsInputs(x) = "ok"},
        d \in PrachDimensions, r \in PrachRestrictedSetTags,
        f \in PrachFormatTags, k \in 0..MaxCfgValue}
    \cup
    {[args |-> a, dims |-> <<LONG_SEQUENCE_LENGTH, 1>>, restricted_set |-> r,
      format |-> "0", root_sequence_index |-> 0, zero_correlation_zone |-> 0] :
        a \in PrachArgShapes, r \in PrachRestrictedSetTags}

NoPrachInputs ==
    [args |-> [nof_inputs |-> 0, buffer_type |-> "none",
               config_is_scalar_struct |-> FALSE, nof_outputs |-> 0],
     dims |-> <<>>, restricted_set |-> "", format |-> "",
     root_sequence_index |-> 0, zero_correlation_zone |-> 0]

NoDetectorConfig ==
    [restricted_set |-> "none", root_sequence_index |-> 0, format |-> "none",
     zero_correlation_zone |-> 0, start_preamble_index |-> 0,
     nof_preamble_indices |-> 0]

NoBuffer == [kind |-> "none", args |-> <<>>, nof_samples |-> 0, nof_symbols |-> 0]
NoFill == [symbols |-> 0, samples |-> 0, out_of_range |-> FALSE, bad_reads |-> FALSE]
NoResult == [preambles |-> <<>>, rssi_dB |-> 0, time_resolution |-> 0,
             time_advance_max |-> 0]


\* Buffer creation without the final else: every other count takes the long path.
CreatePrachBuffer_NoElse(nof_samples, nof_symbols) ==
    IF nof_samples = SHORT_SEQUENCE_LENGTH
    THEN [kind |-> "short", args |-> <<1, 1>>,
          nof_samples |-> SHORT_SEQUENCE_LENGTH, nof_symbols |-> 1]
    ELSE [kind |-> "long", args |-> <<nof_symbols>>,
          nof_samples |-> LONG_SEQUENCE_LENGTH, nof_symbols |-> nof_symbols]

\* Lines 83-89: the buffer the sample count selects; kind "none" when the count
\* is neither sequence length.  The record keeps the factory's arguments.
CreatePrachBuffer(nof_samples, nof_symbols) ==
    IF nof_samples = LONG_SEQUENCE_LENGTH
    THEN [kind |-> "long", args |-> <<nof_symbols>>,
          nof_samples |-> LONG_SEQUENCE_LENGTH, nof_symbols |-> nof_symbols]
    ELSE IF nof_samples = SHORT_SEQUENCE_LENGTH
    THEN [kind |-> "short", args |-> <<1, 1>>,
          nof_samples |-> SHORT_SEQUENCE_LENGTH, nof_symbols |-> 1]
    ELSE NoBuffer

\* in_cft_array[i][j] of an array of dimensions dims: the MATLAB data API checks
\* the first index against the first dimension and the second against the second.
ReadInRange(dims, i, j) == i < dims[1] /\ j < dims[2]

\* Line 98-100 for one symbol: the number of samples copied before the first read
\* of in_cft_array[i_symbol][i_sample] that is out of range (nof_samples if none).
SamplesCopied(dims, i_sym) ==
    LET nof_samples == dims[1]
        bad == {i_sample \in 0..(nof_samples - 1) : ~ReadInRange(dims, i_sym, i_sample)}
    IN  IF bad = {} THEN nof_samples
        ELSE CHOOSE i_sample \in bad : \A other \in bad : i_sample <= other

\* phy_time_unit::to_seconds(): the duration as a number of seconds.
to_seconds(t) == [seconds |-> t]

PreambleIndications ==
    {[preamble_index |-> i, time_advance |-> 2 * i + 1, power_dB |-> 10 + i,
      snr_dB |-> 20 - i] : i \in 0..MaxFieldValue}

RECURSIVE SeqsUpTo(_, _)
SeqsUpTo(S, n) ==
    IF n = 0 THEN {<<>>}
    ELSE LET shorter == SeqsUpTo(S, n - 1)
         IN  shorter \cup {Append(s, x) : s \in {t \in shorter : Len(t) = n - 1}, x \in S}

\* What detector->detect() may return.
DetectionResults ==
    [preambles : SeqsUpTo(PreambleIndications, MaxPreambles),
     rssi_dB : 0..MaxFieldValue,
     time_resolution : {1},
     time_advance_max : {2}]

\* result.preambles.back()
Back(s) == s[Len(s)]

\* A report of the first preamble of the list instead of the last.
DetectedPreambleIndication_Front(res) ==
    LET preamble_indication == res.preambles[1]
    IN  [nof_structs |-> 1,
         nof_detected_preambles |-> Len(res.preambles),
         preamble_index |-> preamble_indication.preamble_index,
         time_advance |-> to_seconds(preamble_indication.time_advance),
         power_dB |-> preamble_indication.power_dB,
         snr_dB |-> preamble_indication.snr_dB,
         rssi_dB |-> res.rssi_dB,
         time_resolution |-> to_seconds(res.time_resolution),
         time_advance_max |-> to_seconds(res.time_advance_max)]

\* Lines 112-130: the 1-by-1 structure array written to the output.
DetectedPreambleIndication(res) ==
    LET preamble_indication == Back(res.preambles)
    IN  [nof_structs |-> 1,
         nof_detected_preambles |-> Len(res.preambles),
         preamble_index |-> preamble_indication.preamble_index,
         time_advance |-> to_seconds(preamble_indication.time_advance),
         power_dB |-> preamble_indication.power_dB,
         snr_dB |-> preamble_indication.snr_dB,
         rssi_dB |-> res.rssi_dB,
         time_resolution |-> to_seconds(res.time_resolution),
         time_advance_max |-> to_seconds(res.time_advance_max)]

\* A branch that skips TYPE_B only.
IsUnrestricted_NotTypeB(restricted_set) == restricted_set # "TYPE_B"

\* Line 60: the branch that runs the detector.
IsUnrestricted(restricted_set) == restricted_set = "UNRESTRICTED"

---------------------------------------------------------------------------
(* Errors.  mex_abort raises a MATLAB error with the message; an unknown    *)
(* tag ends in srsran_terminate; an index out of range raises the data      *)
(* API's exception.                                                         *)

MsgUnknownRestrictedSet == "Unknown restricted set."
MsgInvalidDimensions == "Invalid number of dimensions."
MsgInvalidSamples == "Invalid number of samples."
MsgNoPreambles == "No PRACH preambles were detected."
MsgInvalidArrayIndex == "matlab::data::InvalidArrayIndexException"
MsgSymbolOutOfRange == "prach_buffer::get_symbol: symbol index out of range"

\* The error kinds of the specification.
ErrorKind(msg) ==
    IF msg = "none" THEN "none"
    ELSE IF msg = MsgNoPreambles THEN "NotFound"
    ELSE IF msg \in {MsgInvalidArrayIndex, MsgSymbolOutOfRange} THEN "Fault"
    ELSE "InvalidArgument"

---------------------------------------------------------------------------
(* PRACH detector MEX: method_step. *)

EstUnchanged == UNCHANGED <<e_in, cfg, grid, grid_view, remaining_res, idx,
                            ch_estimate, ch_est_out, compute_calls>>

PrachUnchanged == UNCHANGED <<p_in, detector_config, buffer, i_symbol, fill,
                              detect_calls, result>>

PuschUnchanged == UNCHANGED <<mex, demodulator, callbacks, nof_assemblies, step_call>>

\* Lines 48-92: argument checks, configuration, buffer creation.
PrachCall(in) ==
    /\ pc = "idle"
    /\ p_in' = in
    /\ UNCHANGED <<build, outputs, fill, detect_calls, result, i_symbol>>
    /\ EstUnchanged
    /\ PuschUnchanged
    /\ UNCHANGED heap
    /\ LET chk == PrachCheckStepOutputsInputs(in.args)
           rs == matlab_to_srs_restricted_set(in.restricted_set)
           config == [restricted_set |-> rs.value,
                      root_sequence_index |-> in.root_sequence_index,
                      format |-> matlab_to_srs_preamble_format(in.format).value,
                      zero_correlation_zone |-> in.zero_correlation_zone,
                      start_preamble_index |-> 0,
                      nof_preamble_indices |-> NOF_PREAMBLE_INDICES]
           created == CreatePrachBuffer(in.dims[1], in.dims[2])
       IN  IF chk # "ok"
           THEN /\ pc' = "done" /\ error' = chk /\ skipped' = FALSE
                /\ UNCHANGED <<conv, detector_config, buffer>>
           ELSE IF rs.terminated
           THEN /\ pc' = "done" /\ error' = MsgUnknownRestrictedSet /\ skipped' = FALSE
                /\ conv' = Conv("restricted_set", in.restricted_set)
                /\ UNCHANGED <<detector_config, buffer>>
           ELSE IF ~IsUnrestricted(rs.value)
           THEN /\ pc' = "done" /\ error' = "none" /\ skipped' = TRUE
                /\ conv' = Conv("restricted_set", in.restricted_set)
                /\ detector_config' = [NoDetectorConfig EXCEPT !.restricted_set = rs.value]
                /\ UNCHANGED buffer
           ELSE /\ conv' = Conv("preamble_format", in.format)
                /\ detector_config' = config
                /\ skipped' = FALSE
                /\ IF Len(in.dims) # 2
                   THEN /\ pc' = "done" /\ error' = MsgInvalidDimensions
                        /\ UNCHANGED buffer
                   ELSE IF created.kind = "none"
                   THEN /\ pc' = "done" /\ error' = MsgInvalidSamples
                        /\ UNCHANGED buffer
                   ELSE /\ pc' = "prach_fill" /\ error' = "none"
                        /\ buffer' = created

\* Lines 97-99: the memory of the process after `copied` samples were written
\* through the view get_symbol returned.  A view of a symbol the buffer does not
\* hold lies outside the buffer, and what is written through it stays written
\* when the call has returned.
HeapAfterWrites(h, in_buffer, copied) ==
    IF ~in_buffer /\ copied > 0 THEN "overrun" ELSE h

\* Lines 95-101: one iteration of the outer fill loop.  get_symbol with a symbol
\* index the buffer does not hold fails an assertion in a build that keeps
\* assertions and is an out-of-range access otherwise; a read of in_cft_array
\* out of range raises the data API's exception where the API checks indices.
PrachFillSymbol ==
    /\ pc = "prach_fill"
    /\ i_symbol # p_in.dims[2]
    /\ UNCHANGED <<build, skipped, outputs, conv, p_in, detector_config, buffer,
                   detect_calls, result>>
    /\ EstUnchanged
    /\ PuschUnchanged
    /\ LET nof_samples == p_in.dims[1]
           in_range == SamplesCopied(p_in.dims, i_symbol)
           copied == IF build.index_checked THEN in_range ELSE nof_samples
           in_buffer == i_symbol < buffer.nof_symbols
       IN  IF ~in_buffer /\ build.asserts
           THEN /\ pc' = "done" /\ error' = MsgSymbolOutOfRange
                /\ UNCHANGED <<fill, i_symbol, heap>>
           ELSE /\ heap' = HeapAfterWrites(heap, in_buffer, copied)
                /\ fill' = [symbols |-> fill.symbols + (IF copied = nof_samples THEN 1 ELSE 0),
                            samples |-> fill.samples + copied,
                            out_of_range |-> fill.out_of_range \/ (~in_buffer /\ copied > 0),
                            bad_reads |-> fill.bad_reads \/ in_range < copied]
                /\ IF copied = nof_samples
                   THEN /\ pc' = "prach_fill" /\ error' = "none"
                        /\ i_symbol' = i_symbol + 1
                   ELSE /\ pc' = "done" /\ error' = MsgInvalidArrayIndex
                        /\ UNCHANGED i_symbol

\* A report that returns silently when the preamble list is empty.
PrachReport_NoAbort(res) ==
    IF Len(res.preambles) = 0
    THEN [error |-> "none", outputs |-> <<>>]
    ELSE [error |-> "none", outputs |-> <<DetectedPreambleIndication(res)>>]

\* Lines 106-132: NotFound for an empty preamble list, the structure otherwise.
PrachReport(res) ==
    IF Len(res.preambles) = 0
    THEN [error |-> MsgNoPreambles, outputs |-> <<>>]
    ELSE [error |-> "none", outputs |-> <<DetectedPreambleIndication(res)>>]

\* Lines 103-132: the detector runs on the filled buffer and the result is reported.
PrachDetect ==
    /\ pc = "prach_fill"
    /\ i_symbol = p_in.dims[2]
    /\ \E res \in DetectionResults :
          /\ result' = res
          /\ detect_calls' = detect_calls + 1
          /\ error' = PrachReport(res).error
          /\ outputs' = PrachReport(res).outputs
    /\ pc' = "done"
    /\ UNCHANGED <<build, skipped, conv, p_in, detector_config, buffer, i_symbol, fill>>
    /\ EstUnchanged
    /\ PuschUnchanged
    /\ UNCHANGED heap

---------------------------------------------------------------------------
(* A conversion called on its own (the PUSCH demodulator converts the      *)
(* modulation tag of its configuration).                                   *)

ConvertTag(concept, tag) ==
    /\ pc = "idle"
    /\ conv' = Conv(concept, tag)
    /\ pc' = "done"
    /\ error' = IF Convert(concept, tag).terminated THEN "Unknown tag." ELSE "none"
    /\ UNCHANGED <<build, skipped, outputs>>
    /\ PrachUnchanged
    /\ EstUnchanged
    /\ PuschUnchanged
    /\ UNCHANGED heap

---------------------------------------------------------------------------

---------------------------------------------------------------------------
(* Multiport channel estimator MEX: inputs of a step call. *)

NRE == 12
\* A difference of two unsigned values: the counts of the model stay far below
\* 2^32, so the only wrap-around is that of a negative difference, which is kept
\* as the negative number (it stands for the wrapped value 2^32 + x).
UnsignedDifference(a, b) == a - b

\* The shape of the argument list, as check_step_outputs_inputs sees it.
EstArgShapes ==
    LET good == [nof_inputs |-> 5, grid_type |-> "COMPLEX_SINGLE",
                 allocation_is_two_doubles |-> TRUE,
                 refsym_is_complex_column |-> TRUE,
                 config_is_scalar_struct |-> TRUE, nof_outputs |-> 2]
    IN  {good,
         [good EXCEPT !.nof_inputs = 4],
         [good EXCEPT !.grid_type = "COMPLEX_DOUBLE"],
         [good EXCEPT !.allocation_is_two_doubles = FALSE],
         [good EXCEPT !.refsym_is_complex_column = FALSE],
         [good EXCEPT !.config_is_scalar_struct = FALSE],
         [good EXCEPT !.nof_outputs = 1]}

\* getDimensions() of rxGrid: two dimensions, three (MATLAB drops a trailing
\* dimension of 1, so the third is 0 or at least 2), or four.
GridDimensions ==
    {<<nsc, nsym>> : nsc \in 1..MaxGridDim, nsym \in 1..MaxGridDim}
    \cup {<<nsc, nsym, np>> : nsc \in 1..MaxGridDim, nsym \in 1..MaxGridDim,
                              np \in {0} \cup (2..MaxPorts)}
    \cup {<<1, 1, 2, 2>>}

\* PortIndices: the port identifiers 0..n-1 in ascending or descending order.
PortIndexLists ==
    {[i \in 1..n |-> i - 1] : n \in 0..(MaxPorts + 1)}
    \cup {[i \in 1..n |-> n - i] : n \in 0..(MaxPorts + 1)}

\* A mask of MaskLen bits whose first k bits are set.
Mask(k) == [i \in 1..MaskLen |-> i <= k]
Masks == {Mask(k) : k \in 0..MaskLen}

\* HoppingIndex empty, or a hopping index with a second RB mask.
Hoppings == {[index |-> <<>>, rb_mask2 |-> <<>>],
             [index |-> <<1>>, rb_mask2 |-> Mask(MaskLen)]}

\* Every combination of grid, pilots and configuration with a well-formed
\* argument list, and the malformed argument lists with every grid shape.
EstInputs ==
    [args : {[nof_inputs |-> 5, grid_type |-> "COMPLEX_SINGLE",
              allocation_is_two_doubles |-> TRUE,
              refsym_is_complex_column |-> TRUE,
              config_is_scalar_struct |-> TRUE, nof_outputs |-> 2]},
     grid_dims : GridDimensions,
     port_indices : PortIndexLists,
     nof_pilots : 0..MaxPilots,
     symbols : Masks,
     rb_mask : Masks,
     re_pattern : {Mask(1), Mask(MaskLen)},
     hopping : Hoppings]
    \cup
    [args : EstArgShapes,
     grid_dims : GridDimensions,
     port_indices : {<<0>>},
     nof_pilots : {1},
     symbols : {Mask(1)},
     rb_mask : {Mask(1)},
     re_pattern : {Mask(1)},
     hopping : {[index |-> <<>>, rb_mask2 |-> <<>>]}]

NoEstInputs ==
    [args |-> [nof_inputs |-> 0, grid_type |-> "none",
               allocation_is_two_doubles |-> FALSE,
               refsym_is_complex_column |-> FALSE,
               config_is_scalar_struct |-> FALSE, nof_outputs |-> 0],
     grid_dims |-> <<>>, port_indices |-> <<>>, nof_pilots |-> 0,
     symbols |-> <<>>, rb_mask |-> <<>>, re_pattern |-> <<>>,
     hopping |-> [index |-> <<>>, rb_mask2 |-> <<>>]]

NoCfg == [dmrs_pattern |-> [symbols |-> <<>>, rb_mask |-> <<>>, re_pattern |-> <<>>,
                            hopping_symbol_index |-> <<>>, rb_mask2 |-> <<>>],
          rx_ports |-> <<>>]
NoGrid == [nof_subc |-> 0, nof_symbols |-> 0, nof_ports |-> 0, puts |-> <<>>]
NoView == [start |-> 0, size |-> 0]
NoIdx == [i_port |-> 0, i_symbol |-> 0]

MsgEstInputs == "Wrong number of inputs: expected 5."
MsgEstGrid == "Input 'rxGrid' should be a 2- or 3-dimensional array of complex floats."
MsgEstAllocation == "Input 'symbolAllocation' should contain two elements only."
MsgEstRefSym == "Input 'refSym' should be a column array of complex float symbols."
MsgEstConfig == "Input 'config' should be a scalar structure."
MsgEstOutputs == "Wrong number of outputs: expected 2."
MsgPortIndices == "PortIndices and number of resource grid ports do not match."
MsgPilots == "Expected a different number of DM-RS symbols."

\* check_step_outputs_inputs: "ok", or the message of the mex_abort it ends in.
EstCheckStepOutputsInputs(args, grid_dims) ==
    IF args.nof_inputs # 5 THEN MsgEstInputs
    ELSE IF args.grid_type # "COMPLEX_SINGLE" \/ Len(grid_dims) < 2 \/ Len(grid_dims) > 3
         THEN MsgEstGrid
    ELSE IF ~args.allocation_is_two_doubles THEN MsgEstAllocation
    ELSE IF ~args.refsym_is_complex_column THEN MsgEstRefSym
    ELSE IF ~args.config_is_scalar_struct THEN MsgEstConfig
    ELSE IF args.nof_outputs # 2 THEN MsgEstOutputs
    ELSE "ok"

\* A port count that ignores the third dimension.
NofRxPorts_AlwaysOne(grid_dims) == 1

\* Lines 110-113: one port for a two-dimensional grid, else the third dimension.
NofRxPorts(grid_dims) == IF Len(grid_dims) = 3 THEN grid_dims[3] ELSE 1

\* getNumberOfElements(): the product of the dimensions.
RECURSIVE NumberOfElements(_)
NumberOfElements(dims) ==
    IF dims = <<>> THEN 1 ELSE Head(dims) * NumberOfElements(Tail(dims))

\* bounded_bitset::count(): the number of bits set.
RECURSIVE Count(_)
Count(mask) ==
    IF mask = <<>> THEN 0 ELSE (IF Head(mask) THEN 1 ELSE 0) + Count(Tail(mask))

\* Lines 85-102: the DM-RS pattern of the single layer.
DmrsPattern(in) ==
    [symbols |-> in.symbols,
     rb_mask |-> in.rb_mask,
     re_pattern |-> in.re_pattern,
     hopping_symbol_index |-> in.hopping.index,
     rb_mask2 |-> IF in.hopping.index # <<>> THEN in.hopping.rb_mask2 ELSE <<>>]

\* A pilot count that adds the resource blocks of the second hop.
NofPilotRes_WithSecondHop(dmrs_pattern) ==
    (Count(dmrs_pattern.rb_mask) + Count(dmrs_pattern.rb_mask2))
        * Count(dmrs_pattern.re_pattern)

\* Line 145.
NofPilotRes(dmrs_pattern) == Count(dmrs_pattern.rb_mask) * Count(dmrs_pattern.re_pattern)
\* Line 146.
NofPilotSymbols(dmrs_pattern) == Count(dmrs_pattern.symbols)
\* Line 147: the pilot count the check accepts.
ExpectedPilots(dmrs_pattern) ==
    NofPilotRes(dmrs_pattern) * NofPilotSymbols(dmrs_pattern)

\* Line 122: the check of the number of port indices.
PortIndicesMatch(nof_port_indices, nof_rx_ports) == nof_port_indices = nof_rx_ports

\* span::first and span::last, as ranges of linear indices of the input grid.
SpanFirst(view, n) == [start |-> view.start, size |-> n]
SpanLast(view, n) == [start |-> view.start + view.size - n, size |-> n]

\* A slice taken without advancing the view of the input.
TakeSymbol_NoAdvance(view, remaining, nof_subcarriers) ==
    LET left == UnsignedDifference(remaining, nof_subcarriers)
    IN  [symbol_view |-> SpanFirst(view, nof_subcarriers),
         remaining_res |-> left,
         grid_view |-> view]

\* Lines 135-137: the slice taken for one (port, symbol) and what is left.
TakeSymbol(view, remaining, nof_subcarriers) ==
    LET left == UnsignedDifference(remaining, nof_subcarriers)
    IN  [symbol_view |-> SpanFirst(view, nof_subcarriers),
         remaining_res |-> left,
         grid_view |-> SpanLast(view, left)]

\* create_resource_grid: every (port, symbol) without a put.
CreateResourceGrid(nof_subcarriers, nof_symbols, nof_rx_ports) ==
    [nof_subc |-> nof_subcarriers, nof_symbols |-> nof_symbols, nof_ports |-> nof_rx_ports,
     puts |-> [ps \in (0..(nof_rx_ports - 1)) \X (0..(nof_symbols - 1)) |-> <<>>]]

\* resource_grid_writer::put(port, symbol, k_init, symbols).
Put(g, port, symbol, k_init, symbol_view) ==
    [g EXCEPT !.puts[<<port, symbol>>] =
        Append(@, [k_init |-> k_init, first |-> symbol_view.start,
                   count |-> symbol_view.size])]

\* resource_grid_reader on (port, symbol): for each subcarrier the linear index of
\* the input element last put there, -1 where nothing was put.
GridRead(g, port, symbol) ==
    [k \in 0..(g.nof_subc - 1) |->
        LET covering == {i \in 1..Len(g.puts[<<port, symbol>>]) :
                            LET w == g.puts[<<port, symbol>>][i]
                            IN  w.k_init <= k /\ k < w.k_init + w.count}
        IN  IF covering = {} THEN -1
            ELSE LET i == CHOOSE j \in covering : \A other \in covering : other <= j
                     w == g.puts[<<port, symbol>>][i]
                 IN  w.first + (k - w.k_init)]

\* Lines 133-134: the loop indices after the body ran for (i_port, i_symbol).
NextIdx(i, nof_symbols) ==
    IF i.i_symbol + 1 # nof_symbols
    THEN [i_port |-> i.i_port, i_symbol |-> i.i_symbol + 1]
    ELSE [i_port |-> i.i_port + 1, i_symbol |-> 0]

\* What estimator->compute() may write for a port: the metrics and the path estimate.
PortResults ==
    {[id |-> k, noise_variance |-> 1 + k, rsrp |-> 10 + 3 * k, epre |-> 20 + 5 * k,
      snr |-> 30 + k, time_alignment |-> 40 + 7 * k] : k \in 0..MaxResultId}
NoPortResult == [id |-> -1, noise_variance |-> 0, rsrp |-> 0, epre |-> 0, snr |-> 0,
                 time_alignment |-> 0]

\* channel_estimate::get_path_ch_estimate(port): the slice the estimator wrote.
PathChEstimate(est, port) == [port |-> port, id |-> est[port].id]

\* A quotient total / n of the floating-point division, NaN included (n = 0).
Quotient(total, n) == [num |-> total, den |-> n]

\* Lines 186-195: the record of one port.
PortInfo(r) ==
    [NoiseVar |-> r.noise_variance, RSRP |-> r.rsrp, EPRE |-> r.epre, SINR |-> r.snr,
     TimeAlignment |-> to_seconds(r.time_alignment).seconds]

RECURSIVE Total(_, _, _)
\* Lines 185-196: the running total of one field of the port records over
\* ports 0..n-1.
Total(est, field, n) ==
    IF n = 0 THEN 0 ELSE Total(est, field, n - 1) + PortInfo(est[n - 1])[field]

\* Global metrics that divide the totals by the number of records.
GlobalInfo_DividedByRecords(est, nof_rx_ports) ==
    [NoiseVar |-> Quotient(Total(est, "NoiseVar", nof_rx_ports), nof_rx_ports + 1),
     RSRP |-> Quotient(Total(est, "RSRP", nof_rx_ports), nof_rx_ports + 1),
     EPRE |-> Quotient(Total(est, "EPRE", nof_rx_ports), nof_rx_ports + 1),
     SINR |-> "NaN",
     TimeAlignment |-> Quotient(Total(est, "TimeAlignment", nof_rx_ports),
                                nof_rx_ports + 1)]

\* Lines 198-205: the record of the global metrics.
GlobalInfo(est, nof_rx_ports) ==
    [NoiseVar |-> Quotient(Total(est, "NoiseVar", nof_rx_ports), nof_rx_ports),
     RSRP |-> Quotient(Total(est, "RSRP", nof_rx_ports), nof_rx_ports),
     EPRE |-> Quotient(Total(est, "EPRE", nof_rx_ports), nof_rx_ports),
     SINR |-> "NaN",
     TimeAlignment |-> Quotient(Total(est, "TimeAlignment", nof_rx_ports), nof_rx_ports)]

\* Lines 179-205: the structure array of nof_rx_ports + 1 records.
InfoOut(est, nof_rx_ports) ==
    [i \in 1..(nof_rx_ports + 1) |->
        IF i <= nof_rx_ports THEN PortInfo(est[i - 1])
        ELSE GlobalInfo(est, nof_rx_ports)]

---------------------------------------------------------------------------
(* Multiport channel estimator MEX: method_step. *)

\* Lines 66-132: argument checks, configuration, grid creation, port check.
EstCall(in) ==
    /\ pc = "idle"
    /\ e_in' = in
    /\ UNCHANGED <<build, skipped, outputs, conv, ch_estimate, ch_est_out, compute_calls>>
    /\ PrachUnchanged
    /\ PuschUnchanged
    /\ UNCHANGED heap
    /\ LET chk == EstCheckStepOutputsInputs(in.args, in.grid_dims)
           nof_subcarriers == in.grid_dims[1]
           nof_symbols == in.grid_dims[2]
           nof_rx_ports == NofRxPorts(in.grid_dims)
           nof_port_indices == Len(in.port_indices)
       IN  IF chk # "ok"
           THEN /\ pc' = "done" /\ error' = chk
                /\ UNCHANGED <<cfg, grid, grid_view, remaining_res, idx>>
           ELSE IF ~PortIndicesMatch(nof_port_indices, nof_rx_ports)
           THEN /\ pc' = "done" /\ error' = MsgPortIndices
                /\ cfg' = [dmrs_pattern |-> DmrsPattern(in), rx_ports |-> <<>>]
                /\ grid' = CreateResourceGrid(nof_subcarriers, nof_symbols, nof_rx_ports)
                /\ UNCHANGED <<grid_view, remaining_res, idx>>
           ELSE /\ pc' = "est_fill" /\ error' = "none"
                /\ cfg' = [dmrs_pattern |-> DmrsPattern(in),
                           rx_ports |-> [i \in 1..nof_rx_ports |-> in.port_indices[i]]]
                /\ grid' = CreateResourceGrid(nof_subcarriers, nof_symbols, nof_rx_ports)
                /\ grid_view' = [start |-> 0, size |-> NumberOfElements(in.grid_dims)]
                /\ remaining_res' = NumberOfElements(in.grid_dims)
                /\ idx' = NoIdx

\* Lines 133-141: one iteration of the fill loops.
EstFillSymbol ==
    /\ pc = "est_fill"
    /\ idx.i_port # grid.nof_ports
    /\ idx.i_symbol # grid.nof_symbols
    /\ LET t == TakeSymbol(grid_view, remaining_res, grid.nof_subc)
       IN  /\ remaining_res' = t.remaining_res
           /\ grid_view' = t.grid_view
           /\ grid' = Put(grid, idx.i_port, idx.i_symbol, 0, t.symbol_view)
    /\ idx' = NextIdx(idx, grid.nof_symbols)
    /\ UNCHANGED <<build, pc, error, skipped, outputs, conv, e_in, cfg, ch_estimate,
                   ch_est_out, compute_calls>>
    /\ PrachUnchanged
    /\ PuschUnchanged
    /\ UNCHANGED heap

\* Lines 143-171: the pilot count check, the pilot list and the estimate.
EstCheckPilots ==
    /\ pc = "est_fill"
    /\ idx.i_port = grid.nof_ports
    /\ IF e_in.nof_pilots # ExpectedPilots(cfg.dmrs_pattern)
       THEN /\ pc' = "done" /\ error' = MsgPilots
            /\ UNCHANGED <<idx, ch_estimate>>
       ELSE /\ pc' = "est_compute" /\ error' = "none"
            /\ idx' = NoIdx
            /\ ch_estimate' = [port \in 0..(grid.nof_ports - 1) |-> NoPortResult]
    /\ UNCHANGED <<build, skipped, outputs, conv, e_in, cfg, grid, grid_view,
                   remaining_res, ch_est_out, compute_calls>>
    /\ PrachUnchanged
    /\ PuschUnchanged
    /\ UNCHANGED heap

\* Lines 172-177: the estimator runs for one port and its slice is copied.
EstCompute ==
    /\ pc = "est_compute"
    /\ idx.i_port # grid.nof_ports
    /\ \E r \in PortResults :
          LET est == [ch_estimate EXCEPT ![idx.i_port] = r]
          IN  /\ ch_estimate' = est
              /\ ch_est_out' = Append(ch_est_out, PathChEstimate(est, idx.i_port))
              /\ compute_calls' =
                    Append(compute_calls,
                           [port |-> idx.i_port, res |-> r, rx_ports |-> cfg.rx_ports,
                            read |-> [s \in 0..(grid.nof_symbols - 1) |->
                                         GridRead(grid, idx.i_port, s)]])
    /\ idx' = [idx EXCEPT !.i_port = @ + 1]
    /\ UNCHANGED <<build, pc, error, skipped, outputs, conv, e_in, cfg, grid, grid_view,
                   remaining_res>>
    /\ PrachUnchanged
    /\ PuschUnchanged
    /\ UNCHANGED heap

\* Lines 179-208: the metrics are gathered and the outputs assigned.
EstReport ==
    /\ pc = "est_compute"
    /\ idx.i_port = grid.nof_ports
    /\ outputs' = <<[dims |-> <<Len(cfg.dmrs_pattern.rb_mask) * NRE,
                              Len(cfg.dmrs_pattern.symbols), grid.nof_ports>>,
                     slices |-> ch_est_out],
                    InfoOut(ch_estimate, grid.nof_ports)>>
    /\ pc' = "done"
    /\ UNCHANGED <<build, error, skipped, conv, e_in, cfg, grid, grid_view,
                   remaining_res, idx, ch_estimate, ch_est_out, compute_calls>>
    /\ PrachUnchanged
    /\ PuschUnchanged
    /\ UNCHANGED heap

---------------------------------------------------------------------------

(* PUSCH demodulator MEX: construction of the MexFunction object.  The     *)
(* default member initializer of `demodulator` runs first, the body of the *)
(* constructor second.  The srsRAN factory functions return factories; what *)
(* the create() of the PUSCH demodulator factory returns is the library's   *)
(* choice between a demodulator and a null pointer.                         *)

\* The values of the member `demodulator`: not yet initialised, a null pointer,
\* or a pointer to a demodulator.
NoDemodulator == [pointer |-> "uninitialised"]
Null == [pointer |-> "nullptr"]

\* Line 74.
create_channel_equalizer_factory_zf == [channel_equalizer_factory |-> "zf"]
\* Line 76.
create_channel_modulation_sw_factory == [channel_modulation_factory |-> "sw"]
\* Line 78.
create_pseudo_random_generator_sw_factory == [pseudo_random_generator_factory |-> "sw"]

\* Lines 80-81.
create_pusch_demodulator_factory_sw(equalizer_factory, demod_factory, prg_factory) ==
    [pusch_demodulator_factory |-> "sw",
     equalizer_factory |-> equalizer_factory,
     demod_factory |-> demod_factory,
     prg_factory |-> prg_factory]

\* Line 83: what pusch_demod_factory->create() may return.
Create(pusch_demod_factory) ==
    {Null, [pointer |-> "pusch_demodulator", created_by |-> pusch_demod_factory]}

\* Lines 70-84: the values create_pusch_demodulator() may return.
create_pusch_demodulator ==
    LET equalizer_factory == create_channel_equalizer_factory_zf
        demod_factory == create_channel_modulation_sw_factory
        prg_factory == create_pseudo_random_generator_sw_factory
        pusch_demod_factory ==
            create_pusch_demodulator_factory_sw(equalizer_factory, demod_factory,
                                                prg_factory)
    IN  Create(pusch_demod_factory)

MsgCannotCreateDemodulator == "Cannot create srsran PUSCH demodulator."

NoStepCall == [running |-> FALSE, demodulator |-> NoDemodulator]

\* Line 67: the default member initializer assembles the demodulator.
PuschMemberInit ==
    /\ pc = "idle"
    /\ mex = "unconstructed"
    /\ \E created \in create_pusch_demodulator : demodulator' = created
    /\ nof_assemblies' = nof_assemblies + 1
    /\ mex' = "initialised"
    /\ pc' = "pusch_constructor"
    /\ UNCHANGED <<build, error, skipped, outputs, conv, heap, callbacks, step_call>>
    /\ PrachUnchanged
    /\ EstUnchanged

\* A constructor body without the check of the demodulator.
MexFunctionBody_NoCheck(demod) ==
    [error |-> "none", callbacks |-> {"step"}, mex |-> "constructed"]

\* Lines 26-34: the body of the constructor.  mex_abort leaves the constructor
\* by an exception, so create_callback is not reached.
MexFunctionBody(demod) ==
    IF demod = Null
    THEN [error |-> MsgCannotCreateDemodulator, callbacks |-> {}, mex |-> "aborted"]
    ELSE [error |-> "none", callbacks |-> {"step"}, mex |-> "constructed"]

PuschConstructor ==
    /\ pc = "pusch_constructor"
    /\ error' = MexFunctionBody(demodulator).error
    /\ callbacks' = callbacks \cup MexFunctionBody(demodulator).callbacks
    /\ mex' = MexFunctionBody(demodulator).mex
    /\ pc' = "done"
    /\ UNCHANGED <<build, skipped, outputs, conv, heap, demodulator, nof_assemblies,
                   step_call>>
    /\ PrachUnchanged
    /\ EstUnchanged

\* A call of the "step" method of the constructed object: the dispatcher runs
\* the callback registered under the name, method_step converts the modulation
\* tag of the configuration and uses the demodulator.
PuschStepCall(modulation) ==
    /\ pc = "idle"
    /\ mex = "constructed"
    /\ "step" \in callbacks
    /\ step_call' = [running |-> TRUE, demodulator |-> demodulator]
    /\ conv' = Conv("modulation", modulation)
    /\ error' = IF matlab_to_srs_modulation(modulation).terminated
                THEN "Unknown tag." ELSE "none"
    /\ pc' = "done"
    /\ UNCHANGED <<build, skipped, outputs, heap, mex, demodulator, callbacks,
                   nof_assemblies>>
    /\ PrachUnchanged
    /\ EstUnchanged

---------------------------------------------------------------------------
\* The builds: with or without srsRAN assertions, and with a data API that
\* checks array indices or one that does not.
Builds == [asserts : BOOLEAN, index_checked : BOOLEAN]

Init ==
    /\ build \in Builds
    /\ pc = "idle"
    /\ error = "none"
    /\ skipped = FALSE
    /\ outputs = <<>>
    /\ conv = NoConv
    /\ p_in = NoPrachInputs
    /\ detector_config = NoDetectorConfig
    /\ buffer = NoBuffer
    /\ i_symbol = 0
    /\ fill = NoFill
    /\ detect_calls = 0
    /\ result = NoResult
    /\ e_in = NoEstInputs
    /\ cfg = NoCfg
    /\ grid = NoGrid
    /\ grid_view = NoView
    /\ remaining_res = 0
    /\ idx = NoIdx
    /\ ch_estimate = <<>>
    /\ ch_est_out = <<>>
    /\ compute_calls = <<>>
    /\ heap = "intact"
    /\ mex = "unconstructed"
    /\ demodulator = NoDemodulator
    /\ callbacks = {}
    /\ nof_assemblies = 0
    /\ step_call = NoStepCall

\* The call returns: everything local to it is gone.  The memory outside the
\* call's objects and the members of the MEX object are what they were.
Return ==
    /\ pc = "done"
    /\ UNCHANGED <<build, heap, mex, demodulator, callbacks, nof_assemblies>>
    /\ step_call' = NoStepCall
    /\ pc' = "idle"
    /\ error' = "none"
    /\ skipped' = FALSE
    /\ outputs' = <<>>
    /\ conv' = NoConv
    /\ p_in' = NoPrachInputs
    /\ detector_config' = NoDetectorConfig
    /\ buffer' = NoBuffer
    /\ i_symbol' = 0
    /\ fill' = NoFill
    /\ detect_calls' = 0
    /\ result' = NoResult
    /\ e_in' = NoEstInputs
    /\ cfg' = NoCfg
    /\ grid' = NoGrid
    /\ grid_view' = NoView
    /\ remaining_res' = 0
    /\ idx' = NoIdx
    /\ ch_estimate' = <<>>
    /\ ch_est_out' = <<>>
    /\ compute_calls' = <<>>

PrachStep == pc = "idle" /\ \E in \in PrachInputs : PrachCall(in)
TagStep == pc = "idle" /\ \E concept \in Concepts, tag \in Tags : ConvertTag(concept, tag)

EstStep == pc = "idle" /\ \E in \in EstInputs : EstCall(in)

\* The PRACH detector MEX and the conversions.
NextPrach == PrachStep \/ PrachFillSymbol \/ PrachDetect \/ TagStep \/ Return
SpecPrach == Init /\ [][NextPrach]_vars

\* The multiport channel estimator MEX.
NextEst == EstStep \/ EstFillSymbol \/ EstCheckPilots \/ EstCompute \/ EstReport \/ Return
\* No step of the estimator MEX depends on the build.
InitEst == Init /\ build.asserts /\ build.index_checked
SpecEst == InitEst /\ [][NextEst]_vars

PuschStep == pc = "idle" /\ \E modulation \in Tags : PuschStepCall(modulation)

\* The PUSCH demodulator MEX.
NextPusch == PuschMemberInit \/ PuschConstructor \/ PuschStep \/ Return
SpecPusch == Init /\ [][NextPusch]_vars

\* Every MEX function.
Next ==
    \/ PrachStep \/ PrachFillSymbol \/ PrachDetect \/ TagStep
    \/ EstStep \/ EstFillSymbol \/ EstCheckPilots \/ EstCompute \/ EstReport
    \/ PuschMemberInit \/ PuschConstructor \/ PuschStep
    \/ Return
Spec == Init /\ [][Next]_vars

---------------------------------------------------------------------------
(* Properties of the PRACH detector MEX and of the conversions. *)

\* A PRACH call that passed the argument checks is running or has ended.
PrachCallChecked ==
    /\ pc \in {"prach_fill", "done"}
    /\ p_in # NoPrachInputs
    /\ PrachCheckStepOutputsInputs(p_in.args) = "ok"

\* C1: a PRACH detect call whose restricted_set is TYPE_A or TYPE_B, whatever the
\* buffer dimensions and the other configuration fields, ends "skipped": no
\* buffer is created, the detector is never invoked, no error is raised and
\* nothing is written to the output.
C1_RestrictedSetSkipped ==
    (PrachCallChecked
        /\ p_in.restricted_set \in {"RestrictedSetTypeA", "RestrictedSetTypeB"})
    => /\ pc = "done"
       /\ skipped
       /\ error = "none"
       /\ outputs = <<>>
       /\ detect_calls = 0
       /\ buffer = NoBuffer
       /\ fill = NoFill

C1_Witness ==
    /\ PrachCallChecked
    /\ p_in.restricted_set = "RestrictedSetTypeB"
    /\ p_in.dims = <<LONG_SEQUENCE_LENGTH, 1>>
    /\ pc = "done"
    /\ skipped

\* An UNRESTRICTED PRACH call that passed the argument checks.
PrachUnrestrictedCall ==
    PrachCallChecked /\ p_in.restricted_set = "UnrestrictedSet"

\* C2: in an UNRESTRICTED PRACH call, a first buffer dimension that is neither
\* LONG_SEQUENCE_LENGTH nor SHORT_SEQUENCE_LENGTH ends the call with an
\* InvalidArgument error, with no buffer created, nothing filled and the
\* detector not invoked; in a call with a two-dimensional buffer whose first
\* dimension is LONG_SEQUENCE_LENGTH the long buffer is created for nof_symbols
\* symbols, and for SHORT_SEQUENCE_LENGTH the short buffer is created.
C2_SampleCountSelectsBuffer ==
    PrachUnrestrictedCall
    => /\ (p_in.dims[1] \notin {LONG_SEQUENCE_LENGTH, SHORT_SEQUENCE_LENGTH})
          => /\ pc = "done"
             /\ ErrorKind(error) = "InvalidArgument"
             /\ (Len(p_in.dims) = 2 => error = MsgInvalidSamples)
             /\ buffer = NoBuffer
             /\ fill = NoFill
             /\ detect_calls = 0
             /\ outputs = <<>>
       /\ (Len(p_in.dims) = 2 /\ p_in.dims[1] = LONG_SEQUENCE_LENGTH)
          => /\ buffer.kind = "long"
             /\ buffer.args = <<p_in.dims[2]>>
             /\ error # MsgInvalidSamples
       /\ (Len(p_in.dims) = 2 /\ p_in.dims[1] = SHORT_SEQUENCE_LENGTH)
          => /\ buffer.kind = "short"
             /\ buffer.args = <<1, 1>>
             /\ error # MsgInvalidSamples

C2_Witness ==
    /\ PrachUnrestrictedCall
    /\ p_in.dims = <<2, 1>>
    /\ pc = "done"
    /\ error = MsgInvalidSamples

\* C3: in a PRACH call in which the detector returned an empty preamble list the
\* call ends with the NotFound error and nothing is written to the output; a
\* result structure is in the output only if the detector ran and returned a
\* non-empty list.
C3_EmptyListIsNotFound ==
    /\ (detect_calls > 0 /\ Len(result.preambles) = 0)
       => /\ pc = "done"
          /\ error = MsgNoPreambles
          /\ ErrorKind(error) = "NotFound"
          /\ outputs = <<>>
    /\ (p_in # NoPrachInputs /\ outputs # <<>>)
       => /\ detect_calls = 1
          /\ Len(result.preambles) > 0
          /\ error = "none"

C3_Witness ==
    /\ PrachUnrestrictedCall
    /\ detect_calls = 1
    /\ result.preambles = <<>>
    /\ error = MsgNoPreambles

\* C4: when the detector returned a list of n >= 1 preambles, the output holds one
\* structure, whose preamble_index, time_advance, power_dB and snr_dB are those
\* of element n of the list and whose nof_detected_preambles is n.
C4_LastPreambleReported ==
    (detect_calls > 0 /\ Len(result.preambles) >= 1)
    => LET n == Len(result.preambles)
           last == result.preambles[n]
       IN  /\ Len(outputs) = 1
           /\ outputs[1].nof_structs = 1
           /\ outputs[1].nof_detected_preambles = n
           /\ outputs[1].preamble_index = last.preamble_index
           /\ outputs[1].time_advance = to_seconds(last.time_advance)
           /\ outputs[1].power_dB = last.power_dB
           /\ outputs[1].snr_dB = last.snr_dB

C4_Witness ==
    /\ detect_calls = 1
    /\ Len(result.preambles) = 2
    /\ result.preambles[1] # result.preambles[2]
    /\ result.preambles[1].preamble_index # result.preambles[2].preamble_index
    /\ Len(outputs) = 1
    /\ outputs[1].preamble_index = result.preambles[2].preamble_index

\* The fill loop of an UNRESTRICTED PRACH call is about to run the iteration of
\* i_symbol: get_symbol(0, 0, 0, i_symbol) and the writes symbol_view[i_sample],
\* i_sample < nof_samples.
PrachFillIteration ==
    /\ PrachUnrestrictedCall
    /\ pc = "prach_fill"
    /\ i_symbol # p_in.dims[2]

\* C12: while the PRACH buffer is filled, on the long-sequence and on the
\* short-sequence path and for every accepted shape (nof_samples, nof_symbols),
\* every symbol index handed to get_symbol is below the number of symbols the
\* buffer was created with, every sample index written is below the sequence
\* length of the buffer, and no write outside the buffer has been made.
C12_FillIndicesInRange ==
    /\ PrachFillIteration
        => /\ i_symbol < buffer.nof_symbols
           /\ \A i_sample \in 0..(p_in.dims[1] - 1) : i_sample < buffer.nof_samples
    /\ ~fill.out_of_range

\* A conversion of a tag outside the accepted set of its concept was made.
ConvOfInvalidTag ==
    /\ conv.concept \in Concepts
    /\ conv.tag \notin AcceptedTags(conv.concept)

\* C7 as stated: every conversion of a modulation, restricted-set or preamble-
\* format tag outside the accepted set of its concept reports an error and
\* returns no enumeration value.
C7_Original_InvalidTagsFail ==
    ConvOfInvalidTag => (conv.res.terminated /\ conv.res.value = "none")

\* C7 amended: a modulation or restricted-set tag outside the accepted set ends
\* the conversion in srsran_terminate with no enumeration value; a preamble-
\* format tag outside {"0","1","2","3"} is not rejected, it converts to OTHER.
C7_InvalidTagsFailExceptFormat ==
    ConvOfInvalidTag
    => IF conv.concept = "preamble_format"
       THEN ~conv.res.terminated /\ conv.res.value = "OTHER"
       ELSE /\ conv.res.terminated
            /\ conv.res.value = "none"
            /\ pc = "done"
            /\ error # "none"
            /\ outputs = <<>>
            /\ detect_calls = 0

C7_Witness ==
    /\ conv.concept = "restricted_set"
    /\ conv.tag = "RestrictedSetTypeC"
    /\ p_in # NoPrachInputs
    /\ conv.res.terminated
    /\ error = MsgUnknownRestrictedSet

---------------------------------------------------------------------------
(* Properties of the multiport channel estimator MEX. *)

\* An estimator call that passed the argument checks is running or has ended.
EstCallChecked ==
    /\ pc \in {"est_fill", "est_compute", "done"}
    /\ e_in # NoEstInputs
    /\ EstCheckStepOutputsInputs(e_in.args, e_in.grid_dims) = "ok"

\* The number of bits set in a mask.
BitsSet(mask) == Cardinality({i \in 1..Len(mask) : mask[i]})

\* The antenna ports of the input grid.
GridPorts == IF Len(e_in.grid_dims) = 2 THEN 1 ELSE e_in.grid_dims[3]

NoPuts == \A ps \in DOMAIN grid.puts : grid.puts[ps] = <<>>

\* C5: a call whose number of pilot symbols differs from (bits set in the RB mask
\* x bits set in the RE pattern) x (bits set in the symbol mask) never invokes
\* the estimator and writes no output, with or without a hopping index and a
\* second RB mask; it ends with an InvalidArgument error, which is the DM-RS
\* count error whenever the port indices match the grid.
C5_PilotCountMismatchFails ==
    (EstCallChecked
        /\ e_in.nof_pilots #
              (BitsSet(e_in.rb_mask) * BitsSet(e_in.re_pattern)) * BitsSet(e_in.symbols))
    => /\ compute_calls = <<>>
       /\ ch_est_out = <<>>
       /\ outputs = <<>>
       /\ pc \in {"est_fill", "done"}
       /\ pc = "done"
          => /\ error \in {MsgPortIndices, MsgPilots}
             /\ ErrorKind(error) = "InvalidArgument"
             /\ (Len(e_in.port_indices) = GridPorts => error = MsgPilots)

C5_Witness ==
    /\ EstCallChecked
    /\ e_in.hopping.index # <<>>
    /\ cfg.dmrs_pattern.rb_mask2 # <<>>
    /\ BitsSet(e_in.rb_mask) = 1
    /\ BitsSet(e_in.re_pattern) = 2
    /\ BitsSet(e_in.symbols) = 1
    /\ e_in.nof_pilots = 4
    /\ pc = "done"
    /\ error = MsgPilots

\* C6: a call whose number of port indices differs from the number of grid ports
\* (1 for a two-dimensional grid, else the third dimension) ends with the
\* InvalidArgument port error with nothing put into the grid and the estimator
\* not invoked; in every call that invoked the estimator the two numbers are equal.
C6_PortCountMismatchFails ==
    EstCallChecked
    => /\ (Len(e_in.port_indices) # GridPorts)
          => /\ pc = "done"
             /\ error = MsgPortIndices
             /\ ErrorKind(error) = "InvalidArgument"
             /\ NoPuts
             /\ compute_calls = <<>>
             /\ outputs = <<>>
       /\ (compute_calls # <<>>)
          => /\ Len(e_in.port_indices) = GridPorts
             /\ Len(cfg.rx_ports) = GridPorts
             /\ grid.nof_ports = GridPorts

C6_Witness ==
    /\ EstCallChecked
    /\ Len(e_in.grid_dims) = 3
    /\ e_in.grid_dims[3] = 2
    /\ Len(e_in.port_indices) = 1
    /\ pc = "done"
    /\ error = MsgPortIndices

\* The linear (column-major) index of element (subcarrier, symbol, port) of the
\* input grid.
ColumnMajor(k, symbol, port) ==
    k + e_in.grid_dims[1] * (symbol + e_in.grid_dims[2] * port)

\* Number of (port, symbol) pairs the fill loop has completed.
PairsFilled ==
    IF pc = "est_fill"
    THEN idx.i_port * e_in.grid_dims[2] + idx.i_symbol
    ELSE GridPorts * e_in.grid_dims[2]

\* C8: once the port check passed, the (port, symbol) pairs are put into the grid
\* in the order port * nof_symbols + symbol, each exactly once, over the full
\* width, from the consecutive slice of that number of the input, so that
\* reading the pair returns the input's elements (., symbol, port); the
\* remaining-elements counter is the number of elements not yet copied, never
\* negative, and zero when the loop ends; every estimator call reads a grid in
\* which every pair of its port holds these values.
C8_GridFilledBeforeRead ==
    (EstCallChecked /\ Len(e_in.port_indices) = GridPorts)
    => LET nof_subcarriers == e_in.grid_dims[1]
           nof_symbols == e_in.grid_dims[2]
       IN  /\ \A p \in 0..(GridPorts - 1), s \in 0..(nof_symbols - 1) :
                 LET n == p * nof_symbols + s
                 IN  IF n < PairsFilled
                     THEN /\ grid.puts[<<p, s>>] =
                                <<[k_init |-> 0, first |-> n * nof_subcarriers,
                                   count |-> nof_subcarriers]>>
                          /\ GridRead(grid, p, s) =
                                [k \in 0..(nof_subcarriers - 1) |-> ColumnMajor(k, s, p)]
                     ELSE grid.puts[<<p, s>>] = <<>>
           /\ remaining_res >= 0
           /\ remaining_res =
                 NumberOfElements(e_in.grid_dims) - PairsFilled * nof_subcarriers
           /\ (pc # "est_fill" \/ idx.i_port = GridPorts) => remaining_res = 0
           /\ \A c \in 1..Len(compute_calls) :
                 compute_calls[c].read =
                    [s \in 0..(nof_symbols - 1) |->
                        [k \in 0..(nof_subcarriers - 1) |->
                            ColumnMajor(k, s, compute_calls[c].port)]]

C8_Witness ==
    /\ EstCallChecked
    /\ e_in.grid_dims = <<2, 2, 2>>
    /\ Len(compute_calls) = 2
    /\ remaining_res = 0
    /\ GridRead(grid, 1, 1) = [k \in 0..1 |-> 6 + k]

RECURSIVE SumOfCalls(_, _)
\* The sum of one metric over the results the estimator returned.
SumOfCalls(calls, field) ==
    IF calls = <<>> THEN 0
    ELSE calls[1].res[field] + SumOfCalls(Tail(calls), field)

\* C9: the metrics output has nof_rx_ports + 1 records; record i < nof_rx_ports
\* holds the metrics the estimator returned for port i, and the last record
\* holds, for NoiseVar, RSRP, EPRE and TimeAlignment, the sum over all ports
\* divided by nof_rx_ports, and NaN for SINR.
C9_MetricsRecords ==
    (EstCallChecked /\ outputs # <<>>)
    => LET info_out == outputs[2]
           n == GridPorts
       IN  /\ Len(outputs) = 2
           /\ Len(info_out) = n + 1
           /\ Len(compute_calls) = n
           /\ \A i \in 1..n :
                 /\ compute_calls[i].port = i - 1
                 /\ info_out[i] =
                       [NoiseVar |-> compute_calls[i].res.noise_variance,
                        RSRP |-> compute_calls[i].res.rsrp,
                        EPRE |-> compute_calls[i].res.epre,
                        SINR |-> compute_calls[i].res.snr,
                        TimeAlignment |->
                            to_seconds(compute_calls[i].res.time_alignment).seconds]
           /\ info_out[n + 1] =
                 [NoiseVar |-> [num |-> SumOfCalls(compute_calls, "noise_variance"), den |-> n],
                  RSRP |-> [num |-> SumOfCalls(compute_calls, "rsrp"), den |-> n],
                  EPRE |-> [num |-> SumOfCalls(compute_calls, "epre"), den |-> n],
                  SINR |-> "NaN",
                  TimeAlignment |->
                      [num |-> SumOfCalls(compute_calls, "time_alignment"), den |-> n]]

C9_Witness ==
    /\ EstCallChecked
    /\ pc = "done"
    /\ Len(outputs) = 2
    /\ Len(outputs[2]) = 3
    /\ Len(compute_calls) = 2
    /\ compute_calls[1].res # compute_calls[2].res
    /\ outputs[2][3].RSRP = [num |-> 23, den |-> 2]


---------------------------------------------------------------------------
(* Properties of the PUSCH demodulator MEX. *)

\* The demodulator create_pusch_demodulator assembles: the software PUSCH
\* demodulator factory over the zero-forcing equalizer factory, the software
\* demodulation factory and the software pseudo-random generator factory.
AssembledDemodulator ==
    [pointer |-> "pusch_demodulator",
     created_by |-> [pusch_demodulator_factory |-> "sw",
                     equalizer_factory |-> [channel_equalizer_factory |-> "zf"],
                     demod_factory |-> [channel_modulation_factory |-> "sw"],
                     prg_factory |-> [pseudo_random_generator_factory |-> "sw"]]]

\* C13: the PUSCH demodulator is assembled exactly once, when the MEX object is
\* constructed, from the zero-forcing equalizer factory, the software
\* demodulation factory and the software pseudo-random generator factory, and no
\* step call assembles it again; "step" is registered only in an object whose
\* demodulator was created, so every step call runs with that demodulator; a
\* construction whose demodulator is null aborts with the error and registers
\* nothing.
C13_DemodulatorAssembledOnce ==
    /\ nof_assemblies = (IF mex = "unconstructed" THEN 0 ELSE 1)
    /\ demodulator \in (IF mex = "unconstructed" THEN {NoDemodulator}
                        ELSE {Null, AssembledDemodulator})
    /\ "step" \in callbacks => (mex = "constructed" /\ demodulator = AssembledDemodulator)
    /\ step_call.running => /\ step_call.demodulator = AssembledDemodulator
                            /\ demodulator = AssembledDemodulator
                            /\ nof_assemblies = 1
    /\ (mex \in {"constructed", "aborted"} /\ demodulator = Null)
       => (mex = "aborted" /\ callbacks = {})
    /\ mex = "aborted" => demodulator = Null
    /\ (mex = "aborted" /\ pc = "done") => error = MsgCannotCreateDemodulator
    /\ mex = "constructed" => callbacks = {"step"}

C13_Witness ==
    /\ pc = "done"
    /\ step_call.running
    /\ step_call.demodulator = AssembledDemodulator
    /\ callbacks = {"step"}
    /\ nof_assemblies = 1

\* A construction that aborted: the case of the null demodulator.
PuschConstructionAborted ==
    /\ pc = "done"
    /\ mex = "aborted"
    /\ demodulator = Null
    /\ error = MsgCannotCreateDemodulator
    /\ callbacks = {}


---------------------------------------------------------------------------
(* Properties of every MEX function. *)

\* Nothing of an earlier call is left: every variable of a call has the value
\* it has before the first call.
NoCallState ==
    /\ error = "none"
    /\ skipped = FALSE
    /\ outputs = <<>>
    /\ conv = NoConv
    /\ p_in = NoPrachInputs
    /\ detector_config = NoDetectorConfig
    /\ buffer = NoBuffer
    /\ i_symbol = 0
    /\ fill = NoFill
    /\ detect_calls = 0
    /\ result = NoResult
    /\ e_in = NoEstInputs
    /\ cfg = NoCfg
    /\ grid = NoGrid
    /\ grid_view = NoView
    /\ remaining_res = 0
    /\ idx = NoIdx
    /\ ch_estimate = <<>>
    /\ ch_est_out = <<>>
    /\ compute_calls = <<>>
    /\ step_call = NoStepCall

\* C11: no component retains state across calls.  After any sequence of earlier
\* calls, failed and skipped ones included, a call starts from the state the
\* first call started from: nothing of an earlier call is left and the memory
\* of the process outside the call's objects is intact, so that the outcome of
\* the call depends on its inputs only; and a call that failed has changed
\* nothing outside its own objects.
C11_NoStateAcrossCalls ==
    /\ pc = "idle" => (NoCallState /\ heap = "intact")
    /\ (pc = "done" /\ error # "none") => heap = "intact"

===========================================================================
